---- MODULE Spec2Model ----
(***************************************************************************)
(* State-machine model of the audio engine of the equalizer                *)
(* (src/services/audioEngine.ts): the live Web Audio graph, the source     *)
(* start/stop protocol with its await points, the filter-chain rebuild,    *)
(* file loading and the entry of the offline export.                       *)
(*                                                                         *)
(* Time is counted in whole seconds, node identities are small integers.   *)
(***************************************************************************)
EXTENDS Integers, Sequences, FiniteSets, TLC

(* ------------------------------ bounds -------------------------------- *)
\* live nodes (sources and filters) the graph may hold at once
MaxNodes == 3
\* length of a band collection handed to updateFilters / exportAudio
MaxBands == 2
\* last value of the audio clock
MaxTime == 1
\* cap of the cumulative playback offset
MaxOffset == 2

(* --------------------------- fixed nodes ------------------------------ *)
\* a null reference
Null == 0
\* context.destination
destination == 1
\* this.masterGain
masterGain == 2
\* this.analyserInput: the unfiltered "input" tap
analyserInput == 3
\* this.analyserOutput: the processed "output" tap
analyserOutput == 4
\* first identity of a source node created by start
FirstSource == 10
\* first identity of a filter node created by updateFilters
FirstFilter == 20

SourceIds == FirstSource..(FirstSource + MaxNodes)
FilterIds == FirstFilter..(FirstFilter + MaxNodes)

\* live captured streams told apart by the model
MaxStreams == 1

VARIABLES
    context,            \* "null", or the AudioContext's state: "suspended" | "running"
    sourceNode,         \* this.sourceNode: Null or a node identity
    filters,            \* this.filters: band id -> filter node
    fileBuffer,         \* this.fileBuffer: Null or the decoded buffer's duration
    playbackStartTime,  \* this.playbackStartTime
    playbackOffset,     \* this.playbackOffset
    nodes,              \* the created nodes that are still referenced or connected
    conn,               \* the connections of the graph: <<from, to>>
    currentTime,        \* context.currentTime
    calls,              \* the async calls suspended at an await
    uf,                 \* the activation of updateFilters, while it runs
    bands,              \* the band collection last handed to updateFilters
    observed,           \* what the last draw callback saw of the chain
    resumeAt,           \* <<the cumulative offset at which the loaded file last stopped>>, or <<>>
    lastOp,             \* the step of an engine operation taken last
    wav,                \* the activation of bufferToWav: its locals and the bytes written
    vis,                \* the visualizer: its bands and the curves of its last frame
    app,                \* the controller: its audioState and its exports under way
    streams             \* the captured device streams that are live, counted up to MaxStreams

vars == <<context, sourceNode, filters, fileBuffer, playbackStartTime,
          playbackOffset, nodes, conn, currentTime, calls, uf, bands,
          observed, resumeAt, lastOp, wav, vis, app, streams>>

\* the parts of the state the engine's own operations leave alone
others == <<wav, vis, app, streams>>

(* ---------------------- the engine as a record ------------------------ *)
Engine ==
    [context |-> context, sourceNode |-> sourceNode, filters |-> filters,
     fileBuffer |-> fileBuffer, playbackStartTime |-> playbackStartTime,
     playbackOffset |-> playbackOffset, nodes |-> nodes, conn |-> conn]

Commit(e) ==
    /\ context' = e.context
    /\ sourceNode' = e.sourceNode
    /\ filters' = e.filters
    /\ fileBuffer' = e.fileBuffer
    /\ playbackStartTime' = e.playbackStartTime
    /\ playbackOffset' = e.playbackOffset
    /\ nodes' = e.nodes
    /\ conn' = e.conn

EmptyMap == [x \in {} |-> Null]

\* the states a freshly constructed AudioContext may be in (autoplay policy)
ContextStates == {"suspended", "running"}

\* the states initContext may leave the context in
NewContextStates == IF context = "null" THEN ContextStates ELSE {context}

initContext(e, st) ==
    IF e.context # "null" THEN e
    ELSE [e EXCEPT !.context = st,
                   !.conn = {<<masterGain, destination>>,
                             <<analyserOutput, masterGain>>}]

(* ------------------------- graph primitives --------------------------- *)
\* the identity of the next node created: the first one of its pool not in use
NewNode(e, pool) ==
    CHOOSE n \in pool :
        /\ n \notin DOMAIN e.nodes
        /\ \A m \in pool : m < n => m \in DOMAIN e.nodes

AddNode(e, n, rec) ==
    [e EXCEPT !.nodes = [m \in DOMAIN e.nodes \cup {n} |->
                            IF m = n THEN rec ELSE e.nodes[m]]]

\* AudioNode.connect
Connect(e, from, to) == [e EXCEPT !.conn = @ \cup {<<from, to>>}]

\* AudioNode.disconnect(): every outgoing connection of the node
Disconnect(e, from) == [e EXCEPT !.conn = {c \in @ : c[1] # from}]

Referenced(e) ==
    {e.sourceNode} \cup {e.filters[b] : b \in DOMAIN e.filters}
      \cup {c[1] : c \in e.conn} \cup {c[2] : c \in e.conn}

\* a node no field refers to and nothing is connected to is garbage
Collect(e) ==
    [e EXCEPT !.nodes = [m \in DOMAIN e.nodes \cap Referenced(e) |-> e.nodes[m]]]

Fits(e) == Cardinality(DOMAIN e.nodes) <= MaxNodes

(* ------------------------------ sources ------------------------------- *)
SourceTypes == {"noise", "oscillator", "mic", "file"}

\* this.noiseBuffer is created together with the context
noiseBuffer(e) == e.context # "null"

\* 'stop' in this.sourceNode: a MediaStreamAudioSourceNode has no stop()
HasStop(node) == node.kind # "mediaStreamSource"

stop(e, now) ==
    IF e.sourceNode = Null THEN e
    ELSE LET n  == e.sourceNode
             e1 == IF HasStop(e.nodes[n])
                   THEN [e EXCEPT !.nodes[n].started = FALSE]
                   ELSE e
             e2 == Disconnect(e1, n)
             e3 == [e2 EXCEPT !.sourceNode = Null]
             e4 == IF e3.context # "null"
                   THEN [e3 EXCEPT !.playbackOffset =
                                      @ + (now - e3.playbackStartTime)]
                   ELSE e3
         IN  Collect(e4)

\* lines 75-96 of start: the source of a start that is not 'mic'
createSource(e, sourceType, now) ==
    LET n == NewNode(e, SourceIds) IN
    IF sourceType = "noise" /\ noiseBuffer(e)
    THEN [AddNode(e, n, [kind |-> "bufferSource", buffer |-> "noise",
                         loop |-> TRUE, started |-> TRUE, offset |-> 0])
            EXCEPT !.sourceNode = n]
    ELSE IF sourceType = "file" /\ e.fileBuffer # Null
    THEN [AddNode(e, n, [kind |-> "bufferSource", buffer |-> "file",
                         loop |-> TRUE, started |-> TRUE,
                         offset |-> e.playbackOffset % e.fileBuffer])
            EXCEPT !.sourceNode = n, !.playbackStartTime = now]
    ELSE [AddNode(e, n, [kind |-> "oscillator", buffer |-> "none",
                         loop |-> FALSE, started |-> TRUE, offset |-> 0])
            EXCEPT !.sourceNode = n]

\* line 70 of start: the source made of the captured stream
createMediaStreamSource(e) ==
    LET n == NewNode(e, SourceIds) IN
    [AddNode(e, n, [kind |-> "mediaStreamSource", buffer |-> "none",
                    loop |-> FALSE, started |-> TRUE, offset |-> 0])
       EXCEPT !.sourceNode = n]

\* lines 98-103 of start
wire(e) ==
    IF e.sourceNode # Null
    THEN Connect(Connect(e, e.sourceNode, analyserInput),
                 analyserInput, analyserOutput)
    ELSE e

(* --------------------------- scheduling ------------------------------- *)
\* an updateFilters that awaits inside its forEach
AwaitPoints_rebuildAwaits(op) ==
    CASE op = "start"         -> {"resume", "getUserMedia"}
      [] op = "loadAudioFile" -> {"arrayBuffer", "decodeAudioData"}
      [] op = "exportAudio"   -> {"startRendering"}
      [] op = "updateFilters" -> {"forEach"}
      [] OTHER                -> {}

\* the labels at which an operation awaits, giving up the main thread
AwaitPoints(op) ==
    CASE op = "start"         -> {"resume", "getUserMedia"}
      [] op = "loadAudioFile" -> {"arrayBuffer", "decodeAudioData"}
      [] op = "exportAudio"   -> {"startRendering"}
      [] OTHER                -> {}

\* no synchronous code is running: another task may be dispatched
MainThreadFree == uf.pc = "idle" \/ uf.pc \in AwaitPoints("updateFilters")

NoCall == [op |-> "none"]
\* the slots of suspended calls: one async call is outstanding at a time, while
\* the synchronous operations run freely across its awaits
CallIds == {1}

\* what a caller can compare before and after a call
Snapshot(e) ==
    [sourceNode |-> e.sourceNode,
     wired |-> {c \in e.conn : c[1] = e.sourceNode},
     playbackOffset |-> e.playbackOffset]

\* the suspended calls, told that the engine changed under them
Interleaved(cs, e1, e2) ==
    IF Snapshot(e1) = Snapshot(e2) THEN cs
    ELSE [c \in DOMAIN cs |->
            IF cs[c] = NoCall THEN NoCall ELSE [cs[c] EXCEPT !.clean = FALSE]]

IdleUf == [pc |-> "idle"]

\* no bufferToWav has run
NoWav == [pc |-> "none"]

\* no frame has been drawn
NoVis == [pc |-> "none"]

\* a band of the controller (q in tenths)
createDefaultBand(id, freq) ==
    [id |-> id, enabled |-> TRUE, frequency |-> freq, gain |-> 0, q |-> 10,
     type |-> "peaking"]

\* the bands the App starts with
DefaultBands ==
    <<createDefaultBand("band-1", 100), createDefaultBand("band-2", 1000),
      createDefaultBand("band-3", 5000)>>

\* the audioState and the bands the App starts with, and no export under way
NoApp ==
    [isPlaying |-> FALSE, sourceType |-> "noise", fileName |-> "undefined",
     isExporting |-> FALSE, exports |-> <<>>, bands |-> DefaultBands]

\* the engine after construction
InitEngine ==
    /\ context = "null"
    /\ sourceNode = Null
    /\ filters = EmptyMap
    /\ fileBuffer = Null
    /\ playbackStartTime = 0
    /\ playbackOffset = 0
    /\ nodes = EmptyMap
    /\ conn = {}
    /\ currentTime = 0
    /\ calls = [c \in CallIds |-> NoCall]
    /\ uf = IdleUf
    /\ bands = <<>>
    /\ observed = "whole"
    /\ resumeAt = <<>>
    /\ lastOp = [op |-> "constructor"]
    /\ streams = 0

Init ==
    /\ InitEngine
    /\ wav = NoWav
    /\ vis = NoVis
    /\ app = NoApp

(* ------------------------------ start --------------------------------- *)
HasFree(cs) == \E c \in CallIds : cs[c] = NoCall

\* the suspended calls cs, with one more: rec
Park(cs, rec) ==
    LET slot == CHOOSE c \in CallIds :
                   /\ cs[c] = NoCall
                   /\ \A d \in CallIds : d < c => cs[d] # NoCall
    IN  [cs EXCEPT ![slot] = rec]

WithinOffset(e) == e.playbackOffset <= MaxOffset

\* the offset on record once stop() took e0 to e1: that of a stopped File source
Resumption(e0, e1) ==
    IF e0.sourceNode # Null /\ e0.nodes[e0.sourceNode].buffer = "file"
    THEN <<e1.playbackOffset>>
    ELSE resumeAt

\* lines 65-103 of start, up to the next await or the return
\* (e0: the engine before the step, cs: the other suspended calls)
StartBody(e0, e, cs, rec) ==
    LET e1 == stop(e, currentTime) IN
    /\ WithinOffset(e1)
    /\ resumeAt' = Resumption(e, e1)
    /\ IF rec.arg = "mic"
       THEN /\ HasFree(cs)
            /\ Commit(e1)
            /\ calls' = Park(Interleaved(cs, e0, e1),
                             [rec EXCEPT !.pc = "getUserMedia"])
            /\ lastOp' = [op |-> "start", arg |-> rec.arg,
                          at |-> "getUserMedia"]
       ELSE LET e2 == wire(createSource(e1, rec.arg, currentTime)) IN
            /\ Fits(e2)
            /\ Commit(e2)
            /\ calls' = Interleaved(cs, e0, e2)
            /\ lastOp' = [op |-> "start", arg |-> rec.arg, at |-> "return",
                          result |-> "fulfilled"]

\* a call of start(sourceType), up to its first await or its return
Start(sourceType) ==
    /\ MainThreadFree
    /\ \E st \in NewContextStates :
         LET e1  == initContext(Engine, st)
             rec == [op |-> "start", pc |-> "resume", arg |-> sourceType,
                     pre |-> IF sourceType = "mic" THEN Snapshot(Engine)
                             ELSE Null,
                     clean |-> TRUE]
         IN  IF e1.context = "suspended"
             THEN /\ HasFree(calls)
                  /\ Commit(e1)
                  /\ calls' = Park(Interleaved(calls, Engine, e1), rec)
                  /\ lastOp' = [op |-> "start", arg |-> sourceType,
                                at |-> "resume"]
                  /\ UNCHANGED resumeAt
             ELSE StartBody(Engine, e1, calls, rec)
    /\ UNCHANGED <<others, currentTime, uf, bands, observed>>

\* context.resume() settles: the context runs, start goes on from line 65
ResumeResolved(c) ==
    /\ MainThreadFree
    /\ calls[c] # NoCall
    /\ calls[c].op = "start" /\ calls[c].pc = "resume"
    /\ StartBody(Engine, [Engine EXCEPT !.context = "running"],
                 [calls EXCEPT ![c] = NoCall], calls[c])
    /\ UNCHANGED <<others, currentTime, uf, bands, observed>>

\* getUserMedia grants the stream: lines 70 and 98-103
GetUserMediaResolved(c) ==
    /\ MainThreadFree
    /\ calls[c] # NoCall
    /\ calls[c].op = "start" /\ calls[c].pc = "getUserMedia"
    /\ LET e1 == wire(createMediaStreamSource(Engine)) IN
       /\ Fits(e1)
       /\ Commit(e1)
       /\ calls' = [Interleaved(calls, Engine, e1) EXCEPT ![c] = NoCall]
    /\ streams' = IF streams < MaxStreams THEN streams + 1 ELSE streams
    /\ lastOp' = [op |-> "start", arg |-> "mic", at |-> "return",
                  result |-> "fulfilled"]
    /\ UNCHANGED <<wav, vis, app, currentTime, uf, bands, observed, resumeAt>>

\* getUserMedia is denied: lines 71-74, the catch logs and returns
GetUserMediaRejected(c) ==
    /\ MainThreadFree
    /\ calls[c] # NoCall
    /\ calls[c].op = "start" /\ calls[c].pc = "getUserMedia"
    /\ calls' = [calls EXCEPT ![c] = NoCall]
    /\ lastOp' = [op |-> "start", arg |-> "mic", at |-> "denied",
                  result |-> "fulfilled", pre |-> calls[c].pre,
                  clean |-> calls[c].clean]
    /\ UNCHANGED <<others, context, sourceNode, filters, fileBuffer, playbackStartTime,
                   playbackOffset, nodes, conn, currentTime, uf, bands, observed, resumeAt>>

(* ------------------------------- stop --------------------------------- *)
Stop ==
    /\ MainThreadFree
    /\ LET e1 == stop(Engine, currentTime) IN
       /\ WithinOffset(e1)
       /\ Commit(e1)
       /\ calls' = Interleaved(calls, Engine, e1)
       /\ resumeAt' = Resumption(Engine, e1)
    /\ lastOp' = [op |-> "stop", had |-> sourceNode # Null]
    /\ UNCHANGED <<others, currentTime, uf, bands, observed>>

\* the audio clock advances
Tick ==
    /\ MainThreadFree
    /\ context = "running"
    /\ currentTime < MaxTime
    /\ currentTime' = currentTime + 1
    /\ UNCHANGED <<others, context, sourceNode, filters, fileBuffer, playbackStartTime,
                   playbackOffset, nodes, conn, calls, uf, bands, observed,
                   resumeAt, lastOp>>

(* --------------------------- band collections ------------------------- *)
BandIds == {"band-1", "band-2"}

\* the parameters the bands of the model carry: type, frequency, q, gain
BandParams(id) ==
    IF id = "band-1"
    THEN [type |-> "peaking", frequency |-> 1000, q |-> 1, gain |-> 6]
    ELSE [type |-> "lowshelf", frequency |-> 100, q |-> 2, gain |-> -3]

\* an EqBand (its dynamics settings and colour play no part in the engine)
EqBand(id, enabled) ==
    [id |-> id, enabled |-> enabled, type |-> BandParams(id).type,
     frequency |-> BandParams(id).frequency, q |-> BandParams(id).q,
     gain |-> BandParams(id).gain]

Bands == {EqBand(id, en) : id \in BandIds, en \in BOOLEAN}

BandCollections == UNION {[1..n -> Bands] : n \in 0..MaxBands}

\* a filter() that keeps the disabled bands
Enabled_keepsAll(bs) == bs

\* bands.filter(b => b.enabled)
Enabled(bs) == SelectSeq(bs, LAMBDA b : b.enabled)

(* -------------------------- updateFilters ----------------------------- *)
\* lines 135-139: the filter of a band
createBiquadFilter(band) ==
    [kind |-> "biquad", type |-> band.type, frequency |-> band.frequency,
     Q |-> band.q, gain |-> band.gain, stale |-> FALSE]

\* the filters of earlier rebuilds are marked, to tell them from the new ones
Age(e) ==
    [e EXCEPT !.nodes = [m \in DOMAIN e.nodes |->
        IF e.nodes[m].kind = "biquad"
        THEN [e.nodes[m] EXCEPT !.stale = TRUE] ELSE e.nodes[m]]]

\* lines 122-130: the head of updateFilters
updateFiltersHead(e, st) ==
    LET e1 == initContext(e, st)
        e2 == Disconnect(e1, analyserInput)
        e3 == [e2 EXCEPT !.filters = EmptyMap]
    IN  Collect(Age(e3))

\* lines 133-147: one turn of the forEach
updateFiltersEach(e, previousNode, band) ==
    LET n  == NewNode(e, FilterIds)
        e1 == AddNode(e, n, createBiquadFilter(band))
        e2 == Connect(e1, previousNode, n)
    IN  [e2 EXCEPT !.filters = [b \in DOMAIN e.filters \cup {band.id} |->
                                   IF b = band.id THEN n ELSE e.filters[b]]]

\* line 149
updateFiltersTail(e, previousNode) == Connect(e, previousNode, analyserOutput)

UpdateFilters(bs) ==
    /\ MainThreadFree
    /\ \E st \in NewContextStates :
         LET e1 == updateFiltersHead(Engine, st) IN
         /\ Cardinality(DOMAIN e1.nodes) + Len(Enabled(bs)) <= MaxNodes
         /\ Commit(e1)
         /\ calls' = Interleaved(calls, Engine, e1)
    /\ uf' = [pc |-> "forEach", todo |-> Enabled(bs),
              previousNode |-> analyserInput]
    /\ bands' = bs
    /\ lastOp' = [op |-> "updateFilters", at |-> "call"]
    /\ UNCHANGED <<others, currentTime, observed, resumeAt>>

UpdateFiltersEach ==
    /\ uf.pc = "forEach"
    /\ uf.todo # <<>>
    /\ LET e1 == updateFiltersEach(Engine, uf.previousNode, Head(uf.todo)) IN
       /\ Commit(e1)
       /\ calls' = Interleaved(calls, Engine, e1)
       /\ uf' = [uf EXCEPT !.todo = Tail(@), !.previousNode = e1.filters[Head(uf.todo).id]]
    /\ lastOp' = [op |-> "updateFilters", at |-> "forEach"]
    /\ UNCHANGED <<others, currentTime, bands, observed, resumeAt>>

UpdateFiltersReturn ==
    /\ uf.pc = "forEach"
    /\ uf.todo = <<>>
    /\ LET e1 == updateFiltersTail(Engine, uf.previousNode) IN
       /\ Commit(e1)
       /\ calls' = Interleaved(calls, Engine, e1)
    /\ uf' = IdleUf
    /\ lastOp' = [op |-> "updateFilters", at |-> "return"]
    /\ UNCHANGED <<others, currentTime, bands, observed, resumeAt>>

(* --------------------------- loadAudioFile ---------------------------- *)
\* the durations of the files a user may pick
Durations == {2}

LoadAudioFile(d) ==
    /\ MainThreadFree
    /\ HasFree(calls)
    /\ \E st \in NewContextStates :
         LET e1 == initContext(Engine, st) IN
         /\ Commit(e1)
         /\ calls' = Park(calls, [op |-> "loadAudioFile", pc |-> "arrayBuffer",
                                  arg |-> d, pre |-> Null, clean |-> TRUE])
    /\ lastOp' = [op |-> "loadAudioFile", at |-> "arrayBuffer"]
    /\ UNCHANGED <<others, currentTime, uf, bands, observed, resumeAt>>

\* file.arrayBuffer() settles: line 53 calls decodeAudioData
ArrayBufferResolved(c) ==
    /\ MainThreadFree
    /\ calls[c] # NoCall
    /\ calls[c].op = "loadAudioFile" /\ calls[c].pc = "arrayBuffer"
    /\ calls' = [calls EXCEPT ![c].pc = "decodeAudioData"]
    /\ lastOp' = [op |-> "loadAudioFile", at |-> "decodeAudioData"]
    /\ UNCHANGED <<others, context, sourceNode, filters, fileBuffer, playbackStartTime,
                   playbackOffset, nodes, conn, currentTime, uf, bands, observed, resumeAt>>

\* lines 53-54: the decoded buffer is stored, the offset reset
loadAudioFileTail(e, d) == [e EXCEPT !.fileBuffer = d, !.playbackOffset = 0]

DecodeResolved(c) ==
    /\ MainThreadFree
    /\ calls[c] # NoCall
    /\ calls[c].op = "loadAudioFile" /\ calls[c].pc = "decodeAudioData"
    /\ LET e1 == loadAudioFileTail(Engine, calls[c].arg) IN
       /\ Commit(e1)
       /\ calls' = [Interleaved(calls, Engine, e1) EXCEPT ![c] = NoCall]
    /\ resumeAt' = <<>>
    /\ lastOp' = [op |-> "loadAudioFile", at |-> "return", result |-> "fulfilled"]
    /\ UNCHANGED <<others, currentTime, uf, bands, observed>>

\* decodeAudioData fails: the promise of loadAudioFile rejects
DecodeRejected(c) ==
    /\ MainThreadFree
    /\ calls[c] # NoCall
    /\ calls[c].op = "loadAudioFile" /\ calls[c].pc = "decodeAudioData"
    /\ calls' = [calls EXCEPT ![c] = NoCall]
    /\ lastOp' = [op |-> "loadAudioFile", at |-> "throw", result |-> "rejected"]
    /\ UNCHANGED <<others, context, sourceNode, filters, fileBuffer, playbackStartTime,
                   playbackOffset, nodes, conn, currentTime, uf, bands, observed, resumeAt>>

(* ---------------------------- exportAudio ----------------------------- *)
\* an exportAudio without its guard
exportAudioThrows_never(e) == FALSE

\* line 156: the guard of exportAudio
exportAudioThrows(e) == e.fileBuffer = Null

\* an offline chain that does not skip the disabled bands
offlineChain_keepsAll(bs) == [i \in 1..Len(bs) |-> createBiquadFilter(bs[i])]

\* lines 175-189: the offline chain, in order from the source to the destination
offlineChain(bs) ==
    [i \in 1..Len(Enabled(bs)) |-> createBiquadFilter(Enabled(bs)[i])]

ExportAudio(bs) ==
    /\ MainThreadFree
    /\ IF exportAudioThrows(Engine)
       THEN /\ lastOp' = [op |-> "exportAudio", at |-> "throw",
                          result |-> "rejected"]
            /\ UNCHANGED calls
       ELSE /\ HasFree(calls)
            /\ calls' = Park(calls, [op |-> "exportAudio",
                                     pc |-> "startRendering",
                                     arg |-> offlineChain(bs), pre |-> Null,
                                     clean |-> TRUE])
            /\ lastOp' = [op |-> "exportAudio", at |-> "startRendering"]
    /\ UNCHANGED <<others, context, sourceNode, filters, fileBuffer, playbackStartTime,
                   playbackOffset, nodes, conn, currentTime, uf, bands, observed, resumeAt>>

\* startRendering settles: line 196 encodes and returns the blob
RenderResolved(c) ==
    /\ MainThreadFree
    /\ calls[c] # NoCall
    /\ calls[c].op = "exportAudio" /\ calls[c].pc = "startRendering"
    /\ calls' = [calls EXCEPT ![c] = NoCall]
    /\ lastOp' = [op |-> "exportAudio", at |-> "return", result |-> "fulfilled"]
    /\ UNCHANGED <<others, context, sourceNode, filters, fileBuffer, playbackStartTime,
                   playbackOffset, nodes, conn, currentTime, uf, bands, observed, resumeAt>>

(* ---------------------------- bufferToWav ----------------------------- *)
\* frames of a rendered buffer
MaxFrames == 46
\* channels of a rendered buffer
MaxChannels == 2
\* the bytes of the WAVE header: the first byte of the samples
HeaderBytes == 44
\* a sample is held in quarters: the integer s stands for the sample s / SampleUnit
SampleUnit == 4

\* the sample values a rendered buffer holds: -2.0 .. 2.0
Samples == (-2 * SampleUnit)..(2 * SampleUnit)

SampleRates == {8000, 48000}

\* the AudioBuffers startRendering may deliver; the samples are constant or run
\* through Samples, one step a frame and a channel
RenderedBuffers ==
    [length : 0..MaxFrames, numberOfChannels : 1..MaxChannels,
     sampleRate : SampleRates, ramp : BOOLEAN, first : Samples]

\* buffer.getChannelData(c)[n]
getChannelData(buffer, c, n) ==
    IF buffer.ramp
    THEN ((buffer.first + 2 * SampleUnit + n + c) % (4 * SampleUnit + 1))
            - 2 * SampleUnit
    ELSE buffer.first

\* DataView.setUint16 / setUint32 / setInt16, little-endian: width bytes at pos
RECURSIVE Put(_, _, _, _)
Put(view, pos, data, width) ==
    IF width = 0 THEN view
    ELSE Put([view EXCEPT ![pos] = data % 256], pos + 1, data \div 256, width - 1)

\* a byte rate that leaves the channels out
byteRate_oneChannel(buffer) == buffer.sampleRate * 2

\* line 220: avg. bytes/sec
byteRate(buffer) == buffer.sampleRate * 2 * buffer.numberOfChannels

\* the setUint16 and setUint32 calls of lines 211-224: <<width, data>>
HeaderFields(buffer, length) ==
    << <<4, 1179011410>>,
       <<4, length - 8>>,
       <<4, 1163280727>>,
       <<4, 544501094>>,
       <<4, 16>>,
       <<2, 1>>,
       <<2, buffer.numberOfChannels>>,
       <<4, buffer.sampleRate>>,
       <<4, byteRate(buffer)>>,
       <<2, buffer.numberOfChannels * 2>>,
       <<2, 16>>,
       <<4, 1635017060>> >>

\* the calls of the inner functions setUint16 / setUint32, one after the other:
\* each writes at pos and advances it
RECURSIVE setUints(_, _)
setUints(w, fields) ==
    IF fields = <<>> THEN w
    ELSE setUints([w EXCEPT !.view = Put(w.view, w.pos, Head(fields)[2],
                                         Head(fields)[1]),
                            !.pos = w.pos + Head(fields)[1]],
                  Tail(fields))

\* n / d cut towards zero: the |0 of a quotient
Trunc(n, d) == IF n >= 0 THEN n \div d ELSE -((-n) \div d)

\* a quantization with one scale for both signs
quantize_symmetric(x) ==
    LET sample == IF x < -SampleUnit THEN -SampleUnit
                  ELSE IF x > SampleUnit THEN SampleUnit ELSE x
    IN  Trunc(sample * 32767, SampleUnit)

\* lines 233-234: clamp, scale to 16-bit signed int
quantize(x) ==
    LET sample == IF x < -SampleUnit THEN -SampleUnit
                  ELSE IF x > SampleUnit THEN SampleUnit ELSE x
    IN  IF SampleUnit + 2 * sample < 0
        THEN Trunc(sample * 32768, SampleUnit)
        ELSE Trunc(sample * 32767, SampleUnit)

\* lines 232-237: the channels of the frame at pos, from channel i on
RECURSIVE interleave(_, _)
interleave(w, i) ==
    IF i >= w.buffer.numberOfChannels THEN w
    ELSE interleave(
           [w EXCEPT !.view = Put(w.view, HeaderBytes + w.offset,
                                  quantize(getChannelData(w.buffer, i, w.pos))
                                     % 65536, 2),
                     !.offset = w.offset + 2],
           i + 1)

\* lines 200-208: the locals of bufferToWav(buffer)
bufferToWav(buffer) ==
    LET length == buffer.length * buffer.numberOfChannels * 2 + HeaderBytes IN
    [pc |-> "header", buffer |-> buffer, length |-> length,
     view |-> [b \in 0..(length - 1) |-> 0], offset |-> 0, pos |-> 0]

\* lines 211-225: the header
WavHeader ==
    /\ wav.pc = "header"
    /\ LET w1 == setUints(wav, HeaderFields(wav.buffer, wav.length))
           w2 == setUints(w1, << <<4, w1.length - w1.pos - 4>> >>)
       IN  wav' = [w2 EXCEPT !.pc = "loop"]
    /\ UNCHANGED <<context, sourceNode, filters, fileBuffer, playbackStartTime,
                   playbackOffset, nodes, conn, currentTime, calls, uf, bands,
                   observed, resumeAt, lastOp, vis, app, streams>>

\* lines 231-239: one turn of the while loop
WavFrame ==
    /\ wav.pc = "loop"
    /\ wav.pos < wav.buffer.length
    /\ wav' = [interleave(wav, 0) EXCEPT !.pos = wav.pos + 1]
    /\ UNCHANGED <<context, sourceNode, filters, fileBuffer, playbackStartTime,
                   playbackOffset, nodes, conn, currentTime, calls, uf, bands,
                   observed, resumeAt, lastOp, vis, app, streams>>

\* line 241: the blob is made of the bytes
WavReturn ==
    /\ wav.pc = "loop"
    /\ ~(wav.pos < wav.buffer.length)
    /\ wav' = [wav EXCEPT !.pc = "done"]
    /\ UNCHANGED <<context, sourceNode, filters, fileBuffer, playbackStartTime,
                   playbackOffset, nodes, conn, currentTime, calls, uf, bands,
                   observed, resumeAt, lastOp, vis, app, streams>>

\* the encoder is handed a rendered buffer (line 196)
InitWav ==
    /\ InitEngine
    /\ wav \in {bufferToWav(buffer) : buffer \in RenderedBuffers}
    /\ vis = NoVis
    /\ app = NoApp

NextWav ==
    \/ WavHeader
    \/ WavFrame
    \/ WavReturn

SpecWav == InitWav /\ [][NextWav]_vars

(* ------------------------ bands of any parameters --------------------- *)
\* the valid ranges of the band parameters (Q in tenths)
MIN_FREQ == 20
MAX_FREQ == 20000
MIN_DB == -30
MAX_DB == 30
MIN_Q_TENTHS == 1
MAX_Q_TENTHS == 180

\* an enabled band of the given frequency, q and gain
BandOf(id, frequency, q, gain) ==
    [EqBand(id, TRUE) EXCEPT !.frequency = frequency, !.q = q, !.gain = gain]

\* the bands a caller may hand to the engine: one within the ranges, and one
\* beyond each end of each range
AnyBands ==
    {BandOf("band-1", 1000, 1, 6),
     BandOf("band-1", 999999, 1, 6), BandOf("band-1", 5, 1, 6),
     BandOf("band-1", 1000, 100, 6), BandOf("band-1", 1000, 1, -100)}

AnyCollections == UNION {[1..n -> AnyBands] : n \in 0..MaxBands}

\* rebuilds of the live chain from bands of any parameters
NextAnyBands ==
    \/ \E bs \in AnyCollections : UpdateFilters(bs)
    \/ UpdateFiltersEach
    \/ UpdateFiltersReturn

SpecAnyBands == Init /\ [][NextAnyBands]_vars

\* updateFilters(bands) called again and again with the collection of the
\* first call, nothing else in between
NextTwice ==
    \/ \E bs \in BandCollections :
         /\ lastOp.op = "constructor" \/ bs = bands
         /\ UpdateFilters(bs)
    \/ UpdateFiltersEach
    \/ UpdateFiltersReturn

SpecTwice == Init /\ [][NextTwice]_vars

(* ------------------------ the response preview ------------------------ *)
\* The numbers of the preview are exact fractions <<numerator, denominator>>
\* in lowest terms with a positive denominator.
Abs(n) == IF n < 0 THEN -n ELSE n

RECURSIVE GCD(_, _)
GCD(a, b) == IF b = 0 THEN a ELSE GCD(b, a % b)

Frac(n, d) ==
    LET g == GCD(Abs(n), Abs(d))
    IN  IF d < 0 THEN <<-(n \div g), -(d \div g)>> ELSE <<n \div g, d \div g>>

Num(n) == <<n, 1>>

Times(x, y) ==
    LET g == GCD(Abs(x[1]), y[2])
        h == GCD(Abs(y[1]), x[2])
    IN  Frac((x[1] \div g) * (y[1] \div h), (x[2] \div h) * (y[2] \div g))

Over(x, y) == Times(x, IF y[1] < 0 THEN <<-y[2], -y[1]>> ELSE <<y[2], y[1]>>)

Plus(x, y) ==
    LET g == GCD(x[2], y[2])
    IN  Frac(x[1] * (y[2] \div g) + y[1] * (x[2] \div g), (x[2] \div g) * y[2])

Neg(x) == <<-x[1], x[2]>>

Minus(x, y) == Plus(x, Neg(y))

\* x < y, by whole parts and then by the remainders turned over
RECURSIVE Less(_, _)
Less(x, y) ==
    LET qx == x[1] \div x[2]
        qy == y[1] \div y[2]
        rx == x[1] % x[2]
        ry == y[1] % y[2]
    IN  IF qx # qy THEN qx < qy
        ELSE IF rx = 0 THEN ry > 0
        ELSE IF ry = 0 THEN FALSE
        ELSE Less(<<y[2], ry>>, <<x[2], rx>>)

\* Math.sqrt on the fractions whose root is a fraction
MaxRoot == 256

Sqrt(x) ==
    <<CHOOSE k \in 0..MaxRoot : k * k = x[1], CHOOSE k \in 1..MaxRoot : k * k = x[2]>>

\* A level of x dB is held as the power ratio 10^(x/10) it stands for, so that
\* 10 * Math.log10 and Math.pow(10, x / 10) are exact: the sum of two levels is
\* the product of their ratios, 0 dB is the ratio 1, and the order is kept.
\* The level -200 dB of the floor 1e-20 is a field of its own: floors counts
\* the terms of -200 dB in a sum.
Db(ratio) == [ratio |-> ratio, floors |-> 0]

ZeroDb == Db(Num(1))

FloorDb == [ratio |-> Num(1), floors |-> 1]

\* x + y on levels
DbPlus(x, y) ==
    [ratio |-> Times(x.ratio, y.ratio), floors |-> x.floors + y.floors]

\* 10 * Math.log10(Math.max(magSq, 1e-20)): every fraction of the model other
\* than 0 is above 1e-20
Log10Floored(magSq) == IF magSq[1] = 0 THEN FloorDb ELSE Db(magSq)

\* x < y on levels: a sum with a term of -200 dB is below every level without
\* one (no ratio of the model reaches 200 dB)
DbLess(x, y) ==
    IF x.floors # y.floors THEN x.floors > y.floors ELSE Less(x.ratio, y.ratio)

\* Math.pow(10, gainDb / 40), on the levels whose ratio is a fourth power
Amplitude(gainDb) == Sqrt(Sqrt(gainDb.ratio))

\* The centre and query frequencies of the model are those whose angle
\* 2 * PI * f / Fs at Fs = 48000 has a cosine and a sine that are fractions:
\* 12000 Hz (a quarter turn) and the angles of the 3-4-5 triangle.
Fs == 48000

Frequencies == {4916, 7084, 12000, 16916}

cos(f) ==
    CASE f = 4916 -> <<4, 5>> [] f = 7084 -> <<3, 5>>
      [] f = 12000 -> <<0, 1>> [] f = 16916 -> <<-3, 5>>

sin(f) ==
    CASE f = 4916 -> <<3, 5>> [] f = 7084 -> <<4, 5>>
      [] f = 12000 -> <<1, 1>> [] f = 16916 -> <<4, 5>>

\* Math.cos(2 * w) and Math.sin(2 * w)
cos2(f) == Minus(Times(cos(f), cos(f)), Times(sin(f), sin(f)))

sin2(f) == Times(Num(2), Times(sin(f), cos(f)))

FilterTypes ==
    {"lowpass", "highpass", "bandpass", "lowshelf", "highshelf", "peaking", "notch"}

\* the Pass and Notch cases of the switch: <<b0, b1, b2, a0, a1, a2>>
passCoefficients(type, cosw0, alpha) ==
    CASE type = "lowpass" ->
           <<Over(Minus(Num(1), cosw0), Num(2)), Minus(Num(1), cosw0),
             Over(Minus(Num(1), cosw0), Num(2)),
             Plus(Num(1), alpha), Times(Num(-2), cosw0), Minus(Num(1), alpha)>>
      [] type = "highpass" ->
           <<Over(Plus(Num(1), cosw0), Num(2)), Neg(Plus(Num(1), cosw0)),
             Over(Plus(Num(1), cosw0), Num(2)),
             Plus(Num(1), alpha), Times(Num(-2), cosw0), Minus(Num(1), alpha)>>
      [] type = "bandpass" ->
           <<alpha, Num(0), Neg(alpha),
             Plus(Num(1), alpha), Times(Num(-2), cosw0), Minus(Num(1), alpha)>>
      [] type = "notch" ->
           <<Num(1), Times(Num(-2), cosw0), Num(1),
             Plus(Num(1), alpha), Times(Num(-2), cosw0), Minus(Num(1), alpha)>>

\* the Peaking case of the switch
peakingCoefficients(cosw0, alpha, A) ==
    <<Plus(Num(1), Times(alpha, A)), Times(Num(-2), cosw0),
      Minus(Num(1), Times(alpha, A)),
      Plus(Num(1), Over(alpha, A)), Times(Num(-2), cosw0),
      Minus(Num(1), Over(alpha, A))>>

\* the shelf cases of the switch, from (A + 1) - (A - 1) * cosw0 (less),
\* (A + 1) + (A - 1) * cosw0 (more), (A - 1) - (A + 1) * cosw0 (under),
\* (A - 1) + (A + 1) * cosw0 (upper) and 2 * rootA * alpha (tra)
shelfCoefficients(type, A, less, more, under, upper, tra) ==
    IF type = "lowshelf"
    THEN <<Times(A, Plus(less, tra)), Times(Times(Num(2), A), under),
           Times(A, Minus(less, tra)),
           Plus(more, tra), Times(Num(-2), upper), Minus(more, tra)>>
    ELSE <<Times(A, Plus(more, tra)), Times(Times(Num(-2), A), upper),
           Times(A, Minus(more, tra)),
           Plus(less, tra), Times(Num(2), under), Minus(less, tra)>>

\* the switch of getBiquadMagnitude
coefficients(type, cosw0, alpha, A) ==
    CASE type \in {"lowpass", "highpass", "bandpass", "notch"} ->
           passCoefficients(type, cosw0, alpha)
      [] type = "peaking" -> peakingCoefficients(cosw0, alpha, A)
      [] type \in {"lowshelf", "highshelf"} ->
           shelfCoefficients(type, A,
               Minus(Plus(A, Num(1)), Times(Minus(A, Num(1)), cosw0)),
               Plus(Plus(A, Num(1)), Times(Minus(A, Num(1)), cosw0)),
               Minus(Minus(A, Num(1)), Times(Plus(A, Num(1)), cosw0)),
               Plus(Minus(A, Num(1)), Times(Plus(A, Num(1)), cosw0)),
               Times(Num(2), Times(Sqrt(A), alpha)))

\* re * re + im * im
SquaredNorm(re, im) == Plus(Times(re, re), Times(im, im))

\* the transfer function of the normalized coefficients at z = e^(jw), and
\* 10 * Math.log10(Math.max(magSq, 1e-20))
evaluate(b0n, b1n, b2n, a1n, a2n, cosw, sinw, cos2w, sin2w) ==
    Log10Floored(
        Over(SquaredNorm(Plus(Plus(b0n, Times(b1n, cosw)), Times(b2n, cos2w)),
                         Minus(Neg(Times(b1n, sinw)), Times(b2n, sin2w))),
             SquaredNorm(Plus(Plus(Num(1), Times(a1n, cosw)), Times(a2n, cos2w)),
                         Minus(Neg(Times(a1n, sinw)), Times(a2n, sin2w)))))

\* the coefficients are divided by a0
normalize(c, freq) ==
    evaluate(Over(c[1], c[4]), Over(c[2], c[4]), Over(c[3], c[4]),
             Over(c[5], c[4]), Over(c[6], c[4]),
             cos(freq), sin(freq), cos2(freq), sin2(freq))

\* getBiquadMagnitude(freq, type, f0, Q, gainDb): the level of the response of
\* the filter at freq
getBiquadMagnitude(freq, type, f0, Q, gainDb) ==
    IF type \notin FilterTypes THEN ZeroDb
    ELSE normalize(coefficients(type, cos(f0), Over(sin(f0), Times(Num(2), Q)),
                                Amplitude(gainDb)),
                   freq)

\* the types whose gain the dynamics preview moves
GainBearing == {"peaking", "lowshelf", "highshelf"}

\* a preview gain that heeds neither the type of the band nor its dynamics
previewGain_always(band, includeDynamic) ==
    IF includeDynamic THEN DbPlus(band.gain, band.dynamic.range) ELSE band.gain

\* lines 480-490 of getMagResponse: the gain handed to getBiquadMagnitude
previewGain(band, includeDynamic) ==
    IF includeDynamic /\ band.dynamic.enabled /\ band.type \in GainBearing
    THEN DbPlus(band.gain, band.dynamic.range)
    ELSE band.gain

\* a getMagResponse that computes the response of the disabled bands too
getMagResponse_ignoresEnabled(freq, band, includeDynamic) ==
    getBiquadMagnitude(freq, band.type, band.frequency, band.q,
                       previewGain(band, includeDynamic))

\* a getMagResponse that adds the range to the static magnitude
getMagResponse_staticPlusRange(freq, band, includeDynamic) ==
    IF ~band.enabled THEN ZeroDb
    ELSE LET static == getBiquadMagnitude(freq, band.type, band.frequency,
                                          band.q, band.gain)
         IN  IF previewGain(band, includeDynamic) = band.gain THEN static
             ELSE DbPlus(static, band.dynamic.range)

\* getMagResponse(freq, band, includeDynamic)
getMagResponse(freq, band, includeDynamic) ==
    IF ~band.enabled THEN ZeroDb
    ELSE getBiquadMagnitude(freq, band.type, band.frequency, band.q,
                            previewGain(band, includeDynamic))

\* the bands of the preview: centre 12000 Hz, Q 0.5; a peaking band of
\* +24.08 dB (ratio 256) whose range is -12.04 dB (1/16), a shelf of 0 dB whose
\* range is +24.08 dB, and the other types with the gain and range of the
\* peaking band
PreviewBand(type, enabled, dynamic) ==
    [type |-> type, enabled |-> enabled, frequency |-> 12000, q |-> <<1, 2>>,
     gain |-> IF type \in {"lowshelf", "highshelf"} THEN Db(Num(1))
              ELSE Db(Num(256)),
     dynamic |-> [enabled |-> dynamic,
                  range |-> IF type \in {"lowshelf", "highshelf"}
                            THEN Db(Num(256)) ELSE Db(<<1, 16>>)]]

PreviewBands ==
    {PreviewBand(type, TRUE, TRUE) : type \in FilterTypes}
        \cup {PreviewBand(type, TRUE, FALSE) : type \in {"peaking", "lowshelf"}}
        \cup {PreviewBand(type, FALSE, TRUE) : type \in {"peaking", "notch"}}

PreviewCollections == UNION {[1..n -> PreviewBands] : n \in 0..MaxBands}

\* xToFreq(x, width) at the points of the curve
Points == <<7084, 12000, 16916>>

\* Math.max(-60, Math.min(30, totalDb)): -60 dB is the ratio 1/1000000 and
\* 30 dB the ratio 1000
HardClip(totalDb) ==
    LET top == Db(Num(1000))
        bottom == Db(<<1, 1000000>>)
        lower == IF DbLess(top, totalDb) THEN top ELSE totalDb
    IN  IF DbLess(lower, bottom) THEN bottom ELSE lower

\* lines 618-621 and 647-650: totalDb after the forEach over bands[k..]
RECURSIVE totalDb(_, _, _, _)
totalDb(bs, k, freq, includeDynamic) ==
    IF k > Len(bs) THEN ZeroDb
    ELSE DbPlus(getMagResponse(freq, bs[k], includeDynamic),
                totalDb(bs, k + 1, freq, includeDynamic))

\* the gains handed to getBiquadMagnitude during the forEach, band by band
\* (none for a band that is not enabled)
passedGains(bs, includeDynamic) ==
    [k \in 1..Len(bs) |->
        IF bs[k].enabled THEN <<previewGain(bs[k], includeDynamic)>> ELSE <<>>]

\* what getMagResponse returned during the forEach, band by band
returnedLevels(bs, freq, includeDynamic) ==
    [k \in 1..Len(bs) |-> getMagResponse(freq, bs[k], includeDynamic)]

\* the curves of a frame being drawn from the bands
drawCurves(bs) ==
    [pc |-> "static", bands |-> bs, static |-> <<>>, dynamic |-> <<>>,
     passed |-> <<>>, returned |-> <<>>]

\* lines 613-628: one point of the composite curve
DrawStaticPoint ==
    /\ vis.pc = "static"
    /\ Len(vis.static) < Len(Points)
    /\ LET freq == Points[Len(vis.static) + 1]
       IN  vis' = [vis EXCEPT
                     !.static = Append(@, HardClip(totalDb(vis.bands, 1, freq, FALSE))),
                     !.passed = passedGains(vis.bands, FALSE),
                     !.returned = returnedLevels(vis.bands, freq, FALSE)]
    /\ UNCHANGED <<context, sourceNode, filters, fileBuffer, playbackStartTime,
                   playbackOffset, nodes, conn, currentTime, calls, uf, bands,
                   observed, resumeAt, lastOp, wav, app, streams>>

\* lines 629-636: the curve is stroked; the dynamics curve follows if a band
\* is enabled with dynamics enabled
DrawStaticStroke ==
    /\ vis.pc = "static"
    /\ Len(vis.static) = Len(Points)
    /\ vis' = [vis EXCEPT !.pc =
                 IF \E k \in 1..Len(vis.bands) :
                        vis.bands[k].enabled /\ vis.bands[k].dynamic.enabled
                 THEN "dynamic" ELSE "done"]
    /\ UNCHANGED <<context, sourceNode, filters, fileBuffer, playbackStartTime,
                   playbackOffset, nodes, conn, currentTime, calls, uf, bands,
                   observed, resumeAt, lastOp, wav, app, streams>>

\* lines 643-657: one point of the dynamics curve
DrawDynamicPoint ==
    /\ vis.pc = "dynamic"
    /\ Len(vis.dynamic) < Len(Points)
    /\ LET freq == Points[Len(vis.dynamic) + 1]
       IN  vis' = [vis EXCEPT
                     !.dynamic = Append(@, HardClip(totalDb(vis.bands, 1, freq, TRUE))),
                     !.passed = passedGains(vis.bands, TRUE),
                     !.returned = returnedLevels(vis.bands, freq, TRUE)]
    /\ UNCHANGED <<context, sourceNode, filters, fileBuffer, playbackStartTime,
                   playbackOffset, nodes, conn, currentTime, calls, uf, bands,
                   observed, resumeAt, lastOp, wav, app, streams>>

\* lines 658-659: the dynamics curve is stroked
DrawDynamicStroke ==
    /\ vis.pc = "dynamic"
    /\ Len(vis.dynamic) = Len(Points)
    /\ vis' = [vis EXCEPT !.pc = "done"]
    /\ UNCHANGED <<context, sourceNode, filters, fileBuffer, playbackStartTime,
                   playbackOffset, nodes, conn, currentTime, calls, uf, bands,
                   observed, resumeAt, lastOp, wav, app, streams>>

\* a frame is drawn from a band collection
InitPreview ==
    /\ InitEngine
    /\ wav = NoWav
    /\ vis \in {drawCurves(bs) : bs \in PreviewCollections}
    /\ app = NoApp

NextPreview ==
    \/ DrawStaticPoint
    \/ DrawStaticStroke
    \/ DrawDynamicPoint
    \/ DrawDynamicStroke

SpecPreview == InitPreview /\ [][NextPreview]_vars

(* ------------------ the live filter against the curve ----------------- *)
\* The filter node of a band derives its coefficients at the sample rate of
\* its context: new AudioContext() takes the rate of the output device, and
\* the offline context the rate of the decoded file. The rates of the model
\* are 48000 and 24000, where the angle of a frequency is twice its angle at
\* 48000 and so has a cosine and a sine that are fractions too.
ContextRates == {24000, 48000}

\* Math.cos and Math.sin of 2 * PI * f / sampleRate
cosAt(f, sampleRate) == IF sampleRate = Fs THEN cos(f) ELSE cos2(f)

sinAt(f, sampleRate) == IF sampleRate = Fs THEN sin(f) ELSE sin2(f)

\* the response at freq of the filter createBiquadFilter() makes of a band in
\* a context of the given rate, taken with the formulas of the preview so
\* that nothing but the rate can tell them apart
filterResponse(freq, band, sampleRate) ==
    IF ~band.enabled THEN ZeroDb
    ELSE LET c == coefficients(band.type, cosAt(band.frequency, sampleRate),
                               Over(sinAt(band.frequency, sampleRate),
                                    Times(Num(2), band.q)),
                               Amplitude(band.gain))
             cosw == cosAt(freq, sampleRate)
             sinw == sinAt(freq, sampleRate)
         IN  evaluate(Over(c[1], c[4]), Over(c[2], c[4]), Over(c[3], c[4]),
                      Over(c[5], c[4]), Over(c[6], c[4]),
                      cosw, sinw,
                      Minus(Times(cosw, cosw), Times(sinw, sinw)),
                      Times(Num(2), Times(sinw, cosw)))

\* a band of +24.08 dB with dynamics disabled
HeardBand(type, enabled, f0, Q) ==
    [PreviewBand(type, enabled, FALSE) EXCEPT
        !.frequency = f0, !.q = Q, !.gain = Db(Num(256))]

\* the bands heard and drawn: the Pass, Notch and Peaking types at two
\* centres with Q 1, the shelves with Q 0.5, and a disabled band
HeardBands ==
    {HeardBand(type, TRUE, f0, <<1, 1>>) :
        type \in {"lowpass", "highpass", "bandpass", "notch", "peaking"},
        f0 \in {4916, 7084}}
      \cup {HeardBand("lowshelf", TRUE, 7084, <<1, 2>>),
            HeardBand("highshelf", TRUE, 4916, <<1, 2>>),
            HeardBand("peaking", FALSE, 4916, <<1, 1>>)}

\* a band, the rate of the context that plays it and a frequency below the
\* Nyquist frequency of both rates
heardAndDrawn(band, sampleRate, freq) ==
    [pc |-> "derive", band |-> band, sampleRate |-> sampleRate, freq |-> freq,
     heard |-> <<>>, drawn |-> <<>>]

\* the live filter of the band acts on the audio (audioEngine.ts 135-139)
FilterResponds ==
    /\ vis.pc = "derive"
    /\ vis.heard = <<>>
    /\ vis' = [vis EXCEPT !.heard = <<filterResponse(vis.freq, vis.band, vis.sampleRate)>>]
    /\ UNCHANGED <<context, sourceNode, filters, fileBuffer, playbackStartTime,
                   playbackOffset, nodes, conn, currentTime, calls, uf, bands,
                   observed, resumeAt, lastOp, wav, app, streams>>

\* the static curve of the band is computed (constants.ts 620)
CurveResponds ==
    /\ vis.pc = "derive"
    /\ vis.drawn = <<>>
    /\ vis' = [vis EXCEPT !.drawn = <<getMagResponse(vis.freq, vis.band, FALSE)>>]
    /\ UNCHANGED <<context, sourceNode, filters, fileBuffer, playbackStartTime,
                   playbackOffset, nodes, conn, currentTime, calls, uf, bands,
                   observed, resumeAt, lastOp, wav, app, streams>>

InitDerivation ==
    /\ InitEngine
    /\ wav = NoWav
    /\ vis \in {heardAndDrawn(band, sampleRate, freq) :
                  band \in HeardBands, sampleRate \in ContextRates,
                  freq \in {4916, 7084}}
    /\ app = NoApp

NextDerivation ==
    \/ FilterResponds
    \/ CurveResponds

SpecDerivation == InitDerivation /\ [][NextDerivation]_vars

(* --------------------------- the controller --------------------------- *)
\* exports the controller may have under way in the model
MaxExports == 2

\* audioState.fileName: undefined, 'Loading...' or the name of the file
FileNames == {"undefined", "Loading...", "name"}

\* an EXPORT WAV button that is never disabled
ExportDisabled_never(a) == FALSE

\* the EXPORT WAV button: disabled={audioState.isExporting}
ExportDisabled(a) == a.isExporting

\* the EXPORT WAV button is rendered only with a file name
ExportRendered(a) == a.fileName # "undefined"

\* lines 65-103 of start for a source that is not 'mic', as a function
startSource(e, sourceType, now) == wire(createSource(stop(e, now), sourceType, now))

\* handleFileUpload up to the first await of loadAudioFile: stops the playback,
\* shows 'Loading...', and asks for the bytes of the file
HandleFileUpload(d) ==
    /\ MainThreadFree
    /\ HasFree(calls)
    /\ \E st \in NewContextStates :
         LET e1 == IF app.isPlaying THEN stop(Engine, currentTime) ELSE Engine
             e2 == initContext(e1, st)
         IN  /\ WithinOffset(e1)
             /\ Commit(e2)
             /\ resumeAt' = Resumption(Engine, e1)
             /\ calls' = Park(Interleaved(calls, Engine, e2),
                              [op |-> "loadAudioFile", pc |-> "arrayBuffer",
                               arg |-> d, pre |-> Null, clean |-> TRUE,
                               by |-> "handleFileUpload"])
    /\ app' = [app EXCEPT !.isPlaying = FALSE, !.fileName = "Loading...",
                          !.sourceType = "file"]
    /\ lastOp' = [op |-> "loadAudioFile", at |-> "arrayBuffer"]
    /\ UNCHANGED <<currentTime, uf, bands, observed, wav, vis, streams>>

\* the file is decoded: loadAudioFile returns and handleFileUpload goes on with
\* the name of the file and the auto start, up to the await of start('file')
FileUploadLoaded(c) ==
    /\ MainThreadFree
    /\ calls[c] # NoCall
    /\ calls[c].op = "loadAudioFile" /\ calls[c].pc = "decodeAudioData"
    /\ LET e1 == loadAudioFileTail(Engine, calls[c].arg)
           cs == [calls EXCEPT ![c] = NoCall]
       IN  IF e1.context = "suspended"
           THEN /\ Commit(e1)
                /\ calls' = Park(Interleaved(cs, Engine, e1),
                                 [op |-> "start", pc |-> "resume",
                                  arg |-> "file", pre |-> Null, clean |-> TRUE,
                                  by |-> "handleFileUpload"])
                /\ app' = [app EXCEPT !.fileName = "name", !.sourceType = "file"]
                /\ lastOp' = [op |-> "start", arg |-> "file", at |-> "resume"]
                /\ resumeAt' = <<>>
           ELSE LET e2 == startSource(e1, "file", currentTime) IN
                /\ WithinOffset(e2)
                /\ Fits(e2)
                /\ Commit(e2)
                /\ calls' = Interleaved(cs, Engine, e2)
                /\ app' = [app EXCEPT !.fileName = "name", !.sourceType = "file",
                                      !.isPlaying = TRUE]
                /\ lastOp' = [op |-> "start", arg |-> "file", at |-> "return",
                              result |-> "fulfilled"]
                /\ resumeAt' = Resumption(e1, stop(e1, currentTime))
    /\ UNCHANGED <<currentTime, uf, bands, observed, wav, vis, streams>>

\* decodeAudioData fails: the catch of handleFileUpload drops the file name
FileUploadFailed(c) ==
    /\ MainThreadFree
    /\ calls[c] # NoCall
    /\ calls[c].op = "loadAudioFile" /\ calls[c].pc = "decodeAudioData"
    /\ calls' = [calls EXCEPT ![c] = NoCall]
    /\ app' = [app EXCEPT !.fileName = "undefined"]
    /\ lastOp' = [op |-> "loadAudioFile", at |-> "throw", result |-> "rejected"]
    /\ UNCHANGED <<context, sourceNode, filters, fileBuffer, playbackStartTime,
                   playbackOffset, nodes, conn, currentTime, uf, bands,
                   observed, resumeAt, wav, vis, streams>>

\* the context resumed under the auto start: start('file') runs to its end and
\* handleFileUpload marks the playback
FileUploadStarted(c) ==
    /\ MainThreadFree
    /\ calls[c] # NoCall
    /\ calls[c].op = "start" /\ calls[c].pc = "resume"
    /\ calls[c].by = "handleFileUpload"
    /\ LET e1 == [Engine EXCEPT !.context = "running"]
           e2 == startSource(e1, calls[c].arg, currentTime)
       IN  /\ WithinOffset(e2)
           /\ Fits(e2)
           /\ Commit(e2)
           /\ calls' = [Interleaved(calls, Engine, e2) EXCEPT ![c] = NoCall]
           /\ resumeAt' = Resumption(e1, stop(e1, currentTime))
    /\ app' = [app EXCEPT !.isPlaying = TRUE]
    /\ lastOp' = [op |-> "start", arg |-> calls[c].arg, at |-> "return",
                  result |-> "fulfilled"]
    /\ UNCHANGED <<currentTime, uf, bands, observed, wav, vis, streams>>

\* a click on EXPORT WAV: handleExport up to its await of the timeout
HandleExport ==
    /\ MainThreadFree
    /\ ExportRendered(app)
    /\ ~ExportDisabled(app)
    /\ Len(app.exports) < MaxExports
    /\ LET e1 == IF app.isPlaying THEN stop(Engine, currentTime) ELSE Engine IN
       /\ WithinOffset(e1)
       /\ Commit(e1)
       /\ calls' = Interleaved(calls, Engine, e1)
       /\ resumeAt' = Resumption(Engine, e1)
    /\ app' = [app EXCEPT !.isExporting = TRUE,
                          !.exports = Append(@, [pc |-> "timeout"])]
    /\ lastOp' = [op |-> "handleExport", at |-> "timeout"]
    /\ UNCHANGED <<currentTime, uf, bands, observed, wav, vis, streams>>

\* a sequence without its i-th element
Without(seq, i) == SubSeq(seq, 1, i - 1) \o SubSeq(seq, i + 1, Len(seq))

\* the finally of handleExport
exportFinally(a, i) ==
    [a EXCEPT !.isExporting = FALSE, !.isPlaying = FALSE,
              !.exports = Without(@, i)]

\* the timeout of an export is over: exportAudio(bands) throws into the catch
\* of handleExport, or builds its offline chain and starts to render
ExportTimeout(i) ==
    /\ MainThreadFree
    /\ i \in DOMAIN app.exports
    /\ app.exports[i].pc = "timeout"
    /\ IF exportAudioThrows(Engine)
       THEN /\ app' = exportFinally(app, i)
            /\ lastOp' = [op |-> "exportAudio", at |-> "throw",
                          result |-> "rejected"]
       ELSE /\ app' = [app EXCEPT !.exports[i] =
                          [pc |-> "startRendering", chain |-> offlineChain(bands)]]
            /\ lastOp' = [op |-> "exportAudio", at |-> "startRendering"]
    /\ UNCHANGED <<context, sourceNode, filters, fileBuffer, playbackStartTime,
                   playbackOffset, nodes, conn, currentTime, calls, uf, bands,
                   observed, resumeAt, wav, vis, streams>>

\* the offline render of an export is done: the blob is offered for download
ExportFinished(i) ==
    /\ MainThreadFree
    /\ i \in DOMAIN app.exports
    /\ app.exports[i].pc = "startRendering"
    /\ app' = exportFinally(app, i)
    /\ lastOp' = [op |-> "exportAudio", at |-> "return", result |-> "fulfilled"]
    /\ UNCHANGED <<context, sourceNode, filters, fileBuffer, playbackStartTime,
                   playbackOffset, nodes, conn, currentTime, calls, uf, bands,
                   observed, resumeAt, wav, vis, streams>>

\* the controller's file upload and export, over the engine and its clock
NextApp ==
    \/ \E d \in Durations : HandleFileUpload(d)
    \/ \E c \in CallIds : ArrayBufferResolved(c)
    \/ \E c \in CallIds : FileUploadLoaded(c)
    \/ \E c \in CallIds : FileUploadFailed(c)
    \/ \E c \in CallIds : FileUploadStarted(c)
    \/ HandleExport
    \/ \E i \in 1..MaxExports : ExportTimeout(i)
    \/ \E i \in 1..MaxExports : ExportFinished(i)
    \/ Tick

SpecApp == Init /\ [][NextApp]_vars

(* ----------------------------- toggleAudio ---------------------------- *)
\* setAudioState(prev => ({ ...prev, isPlaying: true, sourceType: type }))
playing(a, type) == [a EXCEPT !.isPlaying = TRUE, !.sourceType = type]

\* a click on a source button: toggleAudio up to an await inside start, or to
\* its end (with no file name the File button only opens the file dialog)
ToggleAudio(type) ==
    /\ MainThreadFree
    /\ ~(type = "file" /\ app.fileName = "undefined")
    /\ IF app.isPlaying /\ app.sourceType = type
       THEN LET e1 == stop(Engine, currentTime) IN
            /\ WithinOffset(e1)
            /\ Commit(e1)
            /\ calls' = Interleaved(calls, Engine, e1)
            /\ resumeAt' = Resumption(Engine, e1)
            /\ app' = [app EXCEPT !.isPlaying = FALSE]
            /\ lastOp' = [op |-> "stop", had |-> sourceNode # Null]
       ELSE \E st \in NewContextStates :
              LET e1  == initContext(Engine, st)
                  rec == [op |-> "start", pc |-> "resume", arg |-> type,
                          pre |-> IF type = "mic" THEN Snapshot(Engine)
                                  ELSE Null,
                          clean |-> TRUE, by |-> "toggleAudio"]
              IN  IF e1.context = "suspended"
                  THEN /\ HasFree(calls)
                       /\ Commit(e1)
                       /\ calls' = Park(Interleaved(calls, Engine, e1), rec)
                       /\ lastOp' = [op |-> "start", arg |-> type,
                                     at |-> "resume"]
                       /\ UNCHANGED <<resumeAt, app>>
                  ELSE /\ StartBody(Engine, e1, calls, rec)
                       /\ app' = IF type = "mic" THEN app ELSE playing(app, type)
    /\ UNCHANGED <<currentTime, uf, bands, observed, wav, vis, streams>>

\* the context resumed under toggleAudio: start goes on from line 65, and when
\* it returns the handler marks the playback
ToggleAudioResumed(c) ==
    /\ MainThreadFree
    /\ calls[c] # NoCall
    /\ calls[c].op = "start" /\ calls[c].pc = "resume"
    /\ calls[c].by = "toggleAudio"
    /\ StartBody(Engine, [Engine EXCEPT !.context = "running"],
                 [calls EXCEPT ![c] = NoCall], calls[c])
    /\ app' = IF calls[c].arg = "mic" THEN app ELSE playing(app, calls[c].arg)
    /\ UNCHANGED <<currentTime, uf, bands, observed, wav, vis, streams>>

\* getUserMedia grants the stream under toggleAudio
ToggleAudioGranted(c) ==
    /\ MainThreadFree
    /\ calls[c] # NoCall
    /\ calls[c].op = "start" /\ calls[c].pc = "getUserMedia"
    /\ calls[c].by = "toggleAudio"
    /\ LET e1 == wire(createMediaStreamSource(Engine)) IN
       /\ Fits(e1)
       /\ Commit(e1)
       /\ calls' = [Interleaved(calls, Engine, e1) EXCEPT ![c] = NoCall]
    /\ streams' = IF streams < MaxStreams THEN streams + 1 ELSE streams
    /\ app' = playing(app, "mic")
    /\ lastOp' = [op |-> "start", arg |-> "mic", at |-> "return",
                  result |-> "fulfilled"]
    /\ UNCHANGED <<wav, vis, currentTime, uf, bands, observed, resumeAt>>

\* getUserMedia is denied under toggleAudio: start logs and returns, and the
\* handler goes on as after any start
ToggleAudioDenied(c) ==
    /\ MainThreadFree
    /\ calls[c] # NoCall
    /\ calls[c].op = "start" /\ calls[c].pc = "getUserMedia"
    /\ calls[c].by = "toggleAudio"
    /\ calls' = [calls EXCEPT ![c] = NoCall]
    /\ app' = playing(app, "mic")
    /\ lastOp' = [op |-> "start", arg |-> "mic", at |-> "denied",
                  result |-> "fulfilled", pre |-> calls[c].pre,
                  clean |-> calls[c].clean]
    /\ UNCHANGED <<context, sourceNode, filters, fileBuffer, playbackStartTime,
                   playbackOffset, nodes, conn, currentTime, uf, bands,
                   observed, resumeAt, wav, vis, streams>>

\* the user at the source buttons, the file input and the export button
NextToggle ==
    \/ \E t \in SourceTypes : ToggleAudio(t)
    \/ \E c \in CallIds : ToggleAudioResumed(c)
    \/ \E c \in CallIds : ToggleAudioGranted(c)
    \/ \E c \in CallIds : ToggleAudioDenied(c)
    \/ \E d \in Durations : HandleFileUpload(d)
    \/ \E c \in CallIds : ArrayBufferResolved(c)
    \/ \E c \in CallIds : FileUploadLoaded(c)
    \/ \E c \in CallIds : FileUploadFailed(c)
    \/ \E c \in CallIds : FileUploadStarted(c)
    \/ HandleExport
    \/ \E i \in 1..MaxExports : ExportTimeout(i)
    \/ \E i \in 1..MaxExports : ExportFinished(i)
    \/ Tick

SpecToggle == Init /\ [][NextToggle]_vars

(* ----------------------- the controller's bands ----------------------- *)
\* the band collection grows by double clicks while it holds fewer bands
MaxAppBands == 4

\* what Date.now() returns to a handler: a whole number of milliseconds, the
\* same to two handlers that run within one of them
Millis == {1001, 1002}

\* the canvas, in units that keep the positions of the model whole
dimensions == [width |-> 3, height |-> 2]

\* where the pointer can be over the canvas
PointerX == {0, dimensions.width}
PointerY == {0, dimensions.height}

RECURSIVE Pow10(_)
Pow10(k) == IF k = 0 THEN 1 ELSE 10 * Pow10(k - 1)

\* the frequency under a horizontal position: three decades across the width
xToFreq(x, width) == MIN_FREQ * Pow10((3 * x) \div width)

\* the gain under a vertical position
yToDb(y, height) == ((height - y) * (MAX_DB - MIN_DB)) \div height + MIN_DB

\* the id a double click at the millisecond makes: `band-${Date.now()}`
newBandId(now) == IF now = 1001 THEN "band-1001" ELSE "band-1002"

clamp(min, v, max) == IF v < min THEN min ELSE IF v > max THEN max ELSE v

\* the first band of the collection with the id
find(bs, id) ==
    bs[CHOOSE i \in DOMAIN bs :
          bs[i].id = id /\ \A j \in 1..(i - 1) : bs[j].id # id]

IdsOf(bs) == {bs[i].id : i \in DOMAIN bs}

handleBandUpdate(bs, updatedBand) ==
    [i \in DOMAIN bs |-> IF bs[i].id = updatedBand.id THEN updatedBand ELSE bs[i]]

handleBandAdd(bs, newBand) == Append(bs, newBand)

handleBandDelete(bs, id) == SelectSeq(bs, LAMBDA b : b.id # id)

\* a handler of the band collection leaves the engine alone until the effect
BandsOnly ==
    UNCHANGED <<context, sourceNode, filters, fileBuffer, playbackStartTime,
                playbackOffset, nodes, conn, currentTime, calls, uf, bands,
                observed, resumeAt, lastOp, wav, vis, streams>>

\* a double click on the canvas adds a band under the pointer
HandleDoubleClick(now, x) ==
    /\ Len(app.bands) < MaxAppBands
    /\ app' = [app EXCEPT !.bands =
                  handleBandAdd(@, createDefaultBand(newBandId(now), xToFreq(x, dimensions.width)))]
    /\ BandsOnly

\* dragging the handle of a band moves its frequency and gain
HandleMouseMove(id, x, y) ==
    /\ id \in IdsOf(app.bands)
    /\ LET band == find(app.bands, id)
           newFreq == xToFreq(x, dimensions.width)
           newGain == yToDb(y, dimensions.height)
       IN  app' = [app EXCEPT !.bands =
                      handleBandUpdate(@, [band EXCEPT
                          !.frequency = clamp(MIN_FREQ, newFreq, MAX_FREQ),
                          !.gain = clamp(MIN_DB, newGain, MAX_DB)])]
    /\ BandsOnly

\* the knobs of the selected band (q in tenths)
Knobs ==
    [frequency |-> [min |-> 20, max |-> 20000],
     gain |-> [min |-> -30, max |-> 30],
     q |-> [min |-> 1, max |-> 100]]

\* the pointer travel of a knob drag, in pixels
Drags == {-200, 200}

\* the value a knob reports for a pointer travel
KnobValue_unclamped(startValue, min, max, deltaY) ==
    startValue + (deltaY * (max - min)) \div 200

KnobValue(startValue, min, max, deltaY) ==
    clamp(min, startValue + (deltaY * (max - min)) \div 200, max)

handlePropChange(band, prop, value) == [band EXCEPT ![prop] = value]

\* dragging a knob of the selected band, which takes the pointer while enabled
KnobMouseMove(id, prop, deltaY) ==
    /\ id \in IdsOf(app.bands)
    /\ LET band == find(app.bands, id)
           knob == Knobs[prop]
       IN  /\ band.enabled
           /\ app' = [app EXCEPT !.bands =
                         handleBandUpdate(@, handlePropChange(band, prop,
                             KnobValue(band[prop], knob.min, knob.max, deltaY)))]
    /\ BandsOnly

\* the types offered by the select of the selected band
TypeChoices == {"peaking", "lowshelf"}

TypeSelect(id, type) ==
    /\ id \in IdsOf(app.bands)
    /\ app' = [app EXCEPT !.bands =
                  handleBandUpdate(@, handlePropChange(find(app.bands, id), "type", type))]
    /\ BandsOnly

BypassToggle(id) ==
    /\ id \in IdsOf(app.bands)
    /\ LET band == find(app.bands, id)
       IN  app' = [app EXCEPT !.bands =
                      handleBandUpdate(@, handlePropChange(band, "enabled", ~band.enabled))]
    /\ BandsOnly

HandleBandDelete(id) ==
    /\ id \in IdsOf(app.bands)
    /\ app' = [app EXCEPT !.bands = handleBandDelete(@, id)]
    /\ BandsOnly

\* the bands the user selects in the model: the one selected when the App
\* starts, and one added by a double click
SelectedIds == {"band-2", newBandId(1001)}

\* the user at the canvas and at the controls of the selected band
NextBands ==
    \/ \E now \in Millis, x \in PointerX : HandleDoubleClick(now, x)
    \/ \E id \in SelectedIds, x \in PointerX, y \in PointerY : HandleMouseMove(id, x, y)
    \/ \E id \in SelectedIds, prop \in DOMAIN Knobs, deltaY \in Drags :
          KnobMouseMove(id, prop, deltaY)
    \/ \E id \in SelectedIds, type \in TypeChoices : TypeSelect(id, type)
    \/ \E id \in SelectedIds : BypassToggle(id)
    \/ \E id \in SelectedIds : HandleBandDelete(id)

SpecBands == Init /\ [][NextBands]_vars

(* ------------------------------- draw --------------------------------- *)
\* the animation frame of the visualizer reads both taps
Draw ==
    /\ MainThreadFree
    /\ context # "null"
    /\ observed' = IF uf.pc = "idle" THEN "whole" ELSE "partial"
    /\ UNCHANGED <<others, context, sourceNode, filters, fileBuffer, playbackStartTime,
                   playbackOffset, nodes, conn, currentTime, calls, uf, bands,
                   resumeAt, lastOp>>

\* every operation of the engine
Next ==
    \/ \E t \in SourceTypes : Start(t)
    \/ \E c \in CallIds : ResumeResolved(c)
    \/ \E c \in CallIds : GetUserMediaResolved(c)
    \/ \E c \in CallIds : GetUserMediaRejected(c)
    \/ Stop
    \/ \E bs \in BandCollections : UpdateFilters(bs)
    \/ UpdateFiltersEach
    \/ UpdateFiltersReturn
    \/ \E d \in Durations : LoadAudioFile(d)
    \/ \E c \in CallIds : ArrayBufferResolved(c)
    \/ \E c \in CallIds : DecodeResolved(c)
    \/ \E c \in CallIds : DecodeRejected(c)
    \/ ExportAudio(bands)
    \/ \E c \in CallIds : RenderResolved(c)
    \/ Tick
    \/ Draw

Spec == Init /\ [][Next]_vars

\* the sources, the file and the clock; no band collection is handed over
NextSources ==
    \/ \E t \in SourceTypes : Start(t)
    \/ \E c \in CallIds : ResumeResolved(c)
    \/ \E c \in CallIds : GetUserMediaResolved(c)
    \/ \E c \in CallIds : GetUserMediaRejected(c)
    \/ Stop
    \/ \E d \in Durations : LoadAudioFile(d)
    \/ \E c \in CallIds : ArrayBufferResolved(c)
    \/ \E c \in CallIds : DecodeResolved(c)
    \/ \E c \in CallIds : DecodeRejected(c)
    \/ ExportAudio(bands)
    \/ \E c \in CallIds : RenderResolved(c)
    \/ Tick

SpecSources == Init /\ [][NextSources]_vars

\* the live graph: rebuilds against starts and stops of the noise source, at a
\* standing clock
NextChain ==
    \/ Start("noise")
    \/ \E c \in CallIds : ResumeResolved(c)
    \/ Stop
    \/ \E bs \in BandCollections : UpdateFilters(bs)
    \/ UpdateFiltersEach
    \/ UpdateFiltersReturn

SpecChain == Init /\ [][NextChain]_vars

\* the collections the controller of the rebuild scenario switches between
RebuildInputs ==
    {<<>>, <<EqBand("band-1", TRUE)>>,
     <<EqBand("band-2", TRUE), EqBand("band-1", TRUE)>>}

\* a rebuild against every kind of operation and the draw callback
NextRebuild ==
    \/ \E t \in {"noise", "mic"} : Start(t)
    \/ \E c \in CallIds : ResumeResolved(c)
    \/ \E c \in CallIds : GetUserMediaResolved(c)
    \/ \E c \in CallIds : GetUserMediaRejected(c)
    \/ Stop
    \/ \E bs \in RebuildInputs : UpdateFilters(bs)
    \/ UpdateFiltersEach
    \/ UpdateFiltersReturn
    \/ \E d \in Durations : LoadAudioFile(d)
    \/ \E c \in CallIds : ArrayBufferResolved(c)
    \/ \E c \in CallIds : DecodeResolved(c)
    \/ \E c \in CallIds : DecodeRejected(c)
    \/ ExportAudio(bands)
    \/ \E c \in CallIds : RenderResolved(c)
    \/ Draw

SpecRebuild == Init /\ [][NextRebuild]_vars

\* rebuilds of the live chain and exports of the loaded file
NextExport ==
    \/ \E bs \in BandCollections : UpdateFilters(bs)
    \/ UpdateFiltersEach
    \/ UpdateFiltersReturn
    \/ \E d \in Durations : LoadAudioFile(d)
    \/ \E c \in CallIds : ArrayBufferResolved(c)
    \/ \E c \in CallIds : DecodeResolved(c)
    \/ \E c \in CallIds : DecodeRejected(c)
    \/ ExportAudio(bands)
    \/ \E c \in CallIds : RenderResolved(c)

SpecExport == Init /\ [][NextExport]_vars

(* ====================== the claims about the sources =================== *)
SourceKinds == {"bufferSource", "oscillator", "mediaStreamSource"}

\* the sources that are started and connected to the input tap
ActiveSources ==
    {n \in DOMAIN nodes : /\ nodes[n].kind \in SourceKinds
                          /\ nodes[n].started
                          /\ <<n, analyserInput>> \in conn}

\* C1: at most one source node is started and connected to the input tap at
\* any time, whatever start() and stop() calls interleave.
C1_AtMostOneActiveSource == Cardinality(ActiveSources) <= 1

\* C6: when start('mic') is called while a source plays and the microphone is
\* denied (and no other operation ran meanwhile), the active source, its
\* connection to the input tap and the File playback offset are as before.
C6_DeniedMicKeepsGraph ==
    (/\ lastOp.op = "start"
     /\ lastOp.at = "denied"
     /\ lastOp.clean
     /\ lastOp.pre.sourceNode # Null)
        => Snapshot(Engine) = lastOp.pre

\* C7: a denied start('mic') reports a failure to its caller: its promise
\* rejects.
C7_DeniedMicIsReported ==
    (lastOp.op = "start" /\ lastOp.at = "denied") => lastOp.result = "rejected"

\* C8: start('file') with no decoded buffer constructs no source node: after
\* it the engine has no active source and nothing feeds the input tap.
C8_FileStartWithoutBufferIsNoOp ==
    [][(/\ fileBuffer = Null
        /\ lastOp'.op = "start"
        /\ lastOp'.arg = "file"
        /\ lastOp'.at = "return")
           => (/\ sourceNode' = Null
               /\ \A c \in conn' : c[2] # analyserInput)]_vars

\* C9: once a File source was stopped at cumulative offset o + (t1 - t0), the
\* next start('file') begins at that offset modulo the buffer's duration: it
\* continues from where playback stopped.
C9_FileResumesWhereItStopped ==
    (/\ lastOp.op = "start"
     /\ lastOp.arg = "file"
     /\ lastOp.at = "return"
     /\ resumeAt # <<>>
     /\ sourceNode # Null
     /\ nodes[sourceNode].buffer = "file")
        => nodes[sourceNode].offset = resumeAt[1] % fileBuffer

(* ====================== the claims about the export ==================== *)
\* C10: exportAudio with no decoded buffer fails with an error raised to the
\* caller, parks no offline render and leaves the engine as it was.
C10_ExportWithoutBufferFails ==
    [][(/\ fileBuffer = Null
        /\ lastOp'.op = "exportAudio"
        /\ lastOp'.at # "return")
           => (/\ lastOp'.at = "throw"
               /\ lastOp'.result = "rejected"
               /\ calls' = calls
               /\ Engine' = Engine)]_vars

C10_Witness ==
    /\ lastOp.op = "exportAudio"
    /\ lastOp.at = "throw"
    /\ fileBuffer = Null
    /\ context # "null"

(* ==================== the claims about the filter chain ================ *)
\* the nodes a node feeds
Succ(n) == {c[2] : c \in {d \in conn : d[1] = n}}

Broken == [kind |-> "broken"]

\* the nodes met from n to the output tap, following the only connection of
\* each; Broken where a node feeds none or several
RECURSIVE Path(_, _)
Path(n, fuel) ==
    IF fuel = 0 \/ Cardinality(Succ(n)) # 1 THEN <<Broken>>
    ELSE LET m == CHOOSE x \in Succ(n) : TRUE IN
         IF m = analyserOutput THEN <<>>
         ELSE <<nodes[m]>> \o Path(m, fuel - 1)

\* the filter a band asks for
FilterOf(b) ==
    [kind |-> "biquad", type |-> b.type, frequency |-> b.frequency,
     Q |-> b.q, gain |-> b.gain, stale |-> FALSE]

EnabledBands == SelectSeq(bands, LAMBDA b : b.enabled = TRUE)

\* C2: while the current band collection has an enabled band, the input tap
\* is not connected directly to the output tap: it feeds the first filter only.
C2_NoBypassOfEnabledFilters ==
    (uf.pc = "idle" /\ EnabledBands # <<>>)
        => (/\ <<analyserInput, analyserOutput>> \notin conn
            /\ Cardinality(Succ(analyserInput)) = 1)

\* C3: right after updateFilters(bands) the path from the input tap to the
\* output tap holds one filter per enabled band, in collection order, with
\* that band's type, frequency, Q and gain, and none for a disabled band; with
\* no band enabled the input tap feeds the output tap directly.
C3_ChainIsEnabledBandsInOrder ==
    (lastOp.op = "updateFilters" /\ lastOp.at = "return")
        => Path(analyserInput, MaxNodes + 1) =
             [i \in 1..Len(EnabledBands) |-> FilterOf(EnabledBands[i])]

C3_Witness ==
    /\ lastOp.op = "updateFilters" /\ lastOp.at = "return"
    /\ Len(bands) = 2
    /\ bands[1].enabled /\ bands[2].enabled
    /\ bands[1].id = "band-2" /\ bands[2].id = "band-1"
    /\ sourceNode # Null

\* C4: after updateFilters no filter of an earlier rebuild is connected to the
\* output tap or to any other node.
C4_OldChainFullyDisconnected ==
    uf.pc = "idle"
        => \A n \in DOMAIN nodes :
             (nodes[n].kind = "biquad" /\ nodes[n].stale)
                => \A c \in conn : c[1] # n /\ c[2] # n

\* C5: between the disconnect of the old chain and the final reconnect inside
\* updateFilters no other engine operation and no draw callback runs, and no
\* draw ever sees a partly rebuilt chain.
C5_RebuildIsAllOrNothing ==
    /\ [](observed # "partial")
    /\ [][uf.pc # "idle"
            => (/\ lastOp'.op = "updateFilters"
                /\ lastOp'.at \in {"forEach", "return"}
                /\ calls' = calls
                /\ sourceNode' = sourceNode
                /\ observed' = observed)]_vars

C5_Witness ==
    /\ uf.pc = "forEach"
    /\ Len(uf.todo) = 1
    /\ DOMAIN filters # {}
    /\ sourceNode # Null
    /\ \E c \in CallIds : calls[c] # NoCall /\ calls[c].pc = "getUserMedia"

(* ================ the claims about the offline export ================== *)
\* the offline chain of the export that is rendering
Rendering ==
    {calls[c].arg : c \in {d \in CallIds : /\ calls[d] # NoCall
                                            /\ calls[d].op = "exportAudio"}}

\* C11: the chain exportAudio(bands) builds is the live chain updateFilters
\* built from the same collection: the same enabled-only subsequence in the
\* same order, each filter with the same type, frequency, Q and gain.
C11_ExportChainIsLiveChain ==
    [][(/\ lastOp.op = "updateFilters"
        /\ lastOp.at = "return"
        /\ lastOp'.op = "exportAudio"
        /\ lastOp'.at = "startRendering")
           => Rendering' = {Path(analyserInput, MaxNodes + 1)}]_vars

C11_Witness ==
    /\ lastOp.op = "exportAudio"
    /\ lastOp.at = "startRendering"
    /\ \E ch \in Rendering : Len(ch) = 1 /\ ch[1].type = "lowshelf"
    /\ Len(bands) = 2
    /\ DOMAIN filters = {"band-2"}

(* ================= the claims about the WAVE encoding =================== *)
\* the unsigned little-endian number in the width bytes at pos
RECURSIVE UintAt(_, _, _)
UintAt(view, pos, width) ==
    IF width = 0 THEN 0
    ELSE view[pos] + 256 * UintAt(view, pos + 1, width - 1)

\* the signed 16-bit little-endian number at pos
Int16At(view, pos) ==
    LET u == UintAt(view, pos, 2) IN IF u >= 32768 THEN u - 65536 ELSE u

\* the 16-bit value the encoding asks for a sample (in units of 1 / SampleUnit)
Quantized(x) ==
    LET clamped == IF x < -SampleUnit THEN -SampleUnit
                   ELSE IF x > SampleUnit THEN SampleUnit ELSE x
        scaled  == IF 2 * clamped < -SampleUnit THEN clamped * 32768
                   ELSE clamped * 32767
    IN  IF scaled < 0 THEN -((-scaled) \div SampleUnit)
        ELSE scaled \div SampleUnit

\* C12: in the finished file the 16-bit value at byte 44 + 2 * (n * C + c) is
\* the quantized sample of channel c at frame n, for every frame and channel.
C12_PayloadIsInterleavedSamples ==
    wav.pc = "done"
        => \A n \in 0..(wav.buffer.length - 1) :
             \A c \in 0..(wav.buffer.numberOfChannels - 1) :
               Int16At(wav.view,
                       HeaderBytes + 2 * (n * wav.buffer.numberOfChannels + c))
                 = Quantized(getChannelData(wav.buffer, c, n))

\* C13: the header holds RIFF size = file size - 8 = 36 + dataBytes, format 1,
\* the channel count, the sample rate, byteRate = R * C * 2, blockAlign = C * 2,
\* 16 bits per sample and data size = F * C * 2; the file is 44 + F * C * 2
\* bytes long.
C13_HeaderDescribesBuffer ==
    wav.pc \in {"loop", "done"}
        => LET F == wav.buffer.length
               C == wav.buffer.numberOfChannels
               R == wav.buffer.sampleRate
               size == Cardinality(DOMAIN wav.view)
           IN  /\ size = 44 + F * C * 2
               /\ DOMAIN wav.view = 0..(size - 1)
               /\ UintAt(wav.view, 4, 4) = size - 8
               /\ UintAt(wav.view, 4, 4) = 36 + F * C * 2
               /\ UintAt(wav.view, 20, 2) = 1
               /\ UintAt(wav.view, 22, 2) = C
               /\ UintAt(wav.view, 24, 4) = R
               /\ UintAt(wav.view, 28, 4) = R * C * 2
               /\ UintAt(wav.view, 32, 2) = C * 2
               /\ UintAt(wav.view, 34, 2) = 16
               /\ UintAt(wav.view, 40, 4) = F * C * 2

C13_Witness ==
    /\ wav.pc = "done"
    /\ wav.buffer.numberOfChannels = 2
    /\ wav.buffer.length = 3
    /\ wav.buffer.sampleRate = 48000

\* the byte at which the frame written last begins
LastFrameAt == HeaderBytes + wav.offset - 2 * wav.buffer.numberOfChannels

\* C14: every sample written is clamped to [-1, 1], scaled by 32768 when
\* 0.5 + sample < 0 and by 32767 otherwise, and truncated: the encoded value
\* lies in [-32768, 32767], with 1.0 (and more) encoded as 32767, -1.0 (and
\* less) as -32768 and 0 as 0.
C14_QuantizationIsAsymmetric ==
    (wav.pc \in {"loop", "done"} /\ wav.offset > 0)
        => \A c \in 0..(wav.buffer.numberOfChannels - 1) :
             LET x == getChannelData(wav.buffer, c, wav.pos - 1)
                 v == Int16At(wav.view, LastFrameAt + 2 * c)
             IN  /\ v \in -32768..32767
                 /\ v = Quantized(x)
                 /\ x >= SampleUnit => v = 32767
                 /\ x <= -SampleUnit => v = -32768
                 /\ x = 0 => v = 0

C14_Witness ==
    /\ wav.pc = "loop"
    /\ wav.offset > 0
    /\ getChannelData(wav.buffer, 0, wav.pos - 1) < -SampleUnit
    /\ Int16At(wav.view, LastFrameAt) = -32768

(* ================= the claims about the controller ===================== *)
\* the exports whose offline render is in flight
RendersInFlight ==
    {i \in DOMAIN app.exports : app.exports[i].pc = "startRendering"}

\* C15: at most one offline render is in flight at any time, and an export is
\* only ever begun while no earlier one is under way.
C15_OneExportAtATime ==
    /\ Cardinality(RendersInFlight) <= 1
    /\ Len(app.exports) <= 1

C15_Witness ==
    /\ Cardinality(RendersInFlight) = 1
    /\ ExportRendered(app)
    /\ ExportDisabled(app)
    /\ fileBuffer # Null

(* ================= the claims about the band parameters ================ *)
\* C16: the frequency, Q and gain used for the filter of every band handed to
\* updateFilters lie in [20, 20000] Hz, [0.1, 18] and [-30, 30] dB; a band of
\* frequency 999999 is used with frequency 20000.
C16_ParametersAreClamped ==
    \A n \in DOMAIN nodes :
        nodes[n].kind = "biquad"
            => /\ nodes[n].frequency \in MIN_FREQ..MAX_FREQ
               /\ 10 * nodes[n].Q \in MIN_Q_TENTHS..MAX_Q_TENTHS
               /\ nodes[n].gain \in MIN_DB..MAX_DB

(* ==================== the claims about the preview ==================== *)
\* the sum of a sequence of levels
RECURSIVE SumDb(_)
SumDb(levels) ==
    IF levels = <<>> THEN ZeroDb ELSE DbPlus(Head(levels), SumDb(Tail(levels)))

\* C17 as stated: every point of the static and of the with-dynamics curve is
\* the arithmetic sum in dB of the magnitudes of the individual bands at its
\* frequency, and the bands that are not enabled contribute 0 dB to both.
C17_CompositeIsSumOfBands ==
    /\ \A i \in 1..Len(vis.static) :
         /\ vis.static[i] = SumDb(returnedLevels(vis.bands, Points[i], FALSE))
         /\ vis.static[i] = SumDb(returnedLevels(Enabled(vis.bands), Points[i], FALSE))
    /\ \A i \in 1..Len(vis.dynamic) :
         /\ vis.dynamic[i] = SumDb(returnedLevels(vis.bands, Points[i], TRUE))
         /\ vis.dynamic[i] = SumDb(returnedLevels(Enabled(vis.bands), Points[i], TRUE))

\* C17 amended: every point of the static and of the with-dynamics curve is
\* the arithmetic sum in dB of the magnitudes of the individual bands at its
\* frequency limited to [-60, 30] dB, and the bands that are not enabled
\* contribute 0 dB to both: the sum over the enabled bands alone is the same.
C17_CompositeIsClippedSumOfBands ==
    /\ \A i \in 1..Len(vis.static) :
         /\ vis.static[i] = HardClip(SumDb(returnedLevels(vis.bands, Points[i], FALSE)))
         /\ vis.static[i]
              = HardClip(SumDb(returnedLevels(Enabled(vis.bands), Points[i], FALSE)))
    /\ \A i \in 1..Len(vis.dynamic) :
         /\ vis.dynamic[i] = HardClip(SumDb(returnedLevels(vis.bands, Points[i], TRUE)))
         /\ vis.dynamic[i]
              = HardClip(SumDb(returnedLevels(Enabled(vis.bands), Points[i], TRUE)))

\* both curves are drawn from an enabled and a disabled band, and a point of
\* the static curve was limited
C17_Witness ==
    /\ vis.pc = "done"
    /\ Len(vis.dynamic) = Len(Points)
    /\ \E k \in 1..Len(vis.bands) : ~vis.bands[k].enabled
    /\ \E i \in 1..Len(Points) :
         vis.static[i] # SumDb(returnedLevels(vis.bands, Points[i], FALSE))

\* the bands the dynamics preview leaves as they are
Unmodulated(band) ==
    band.type \in {"lowpass", "highpass", "bandpass", "notch"} \/ ~band.dynamic.enabled

\* C18: for a band of type LowPass, HighPass, BandPass or Notch, or with its
\* dynamics disabled, the gain handed to the magnitude function for the
\* with-dynamics curve is the band's own gain, and its with-dynamics
\* contribution is its static contribution.
C18_NoModulationTerm ==
    (vis.pc \in {"dynamic", "done"} /\ Len(vis.dynamic) > 0)
        => \A k \in 1..Len(vis.bands) :
             (vis.bands[k].enabled /\ Unmodulated(vis.bands[k]))
                => /\ vis.passed[k] = <<vis.bands[k].gain>>
                   /\ vis.returned[k]
                        = getMagResponse(Points[Len(vis.dynamic)], vis.bands[k], FALSE)

\* the with-dynamics curve is drawn from a LowPass band with dynamics enabled
\* and from a Peaking band with dynamics disabled
C18_Witness ==
    /\ vis.pc = "done"
    /\ Len(vis.dynamic) = Len(Points)
    /\ \E k \in 1..Len(vis.bands) :
         /\ vis.bands[k].enabled
         /\ vis.bands[k].type = "lowpass"
         /\ vis.bands[k].dynamic.enabled
    /\ \E k \in 1..Len(vis.bands) :
         /\ vis.bands[k].enabled
         /\ vis.bands[k].type = "peaking"
         /\ ~vis.bands[k].dynamic.enabled

\* the static magnitude of a band at a frequency
StaticMagnitude(band, freq) ==
    getBiquadMagnitude(freq, band.type, band.frequency, band.q, band.gain)

\* C19 as stated: for an enabled band of a gain-bearing type with dynamics
\* enabled, the preview magnitude at every query frequency is the static
\* magnitude of the band at that frequency plus the configured range.
C19_PreviewIsStaticPlusRange ==
    (vis.pc \in {"dynamic", "done"} /\ Len(vis.dynamic) > 0)
        => \A k \in 1..Len(vis.bands) :
             (vis.bands[k].enabled /\ ~Unmodulated(vis.bands[k]))
                => vis.returned[k]
                     = DbPlus(StaticMagnitude(vis.bands[k], Points[Len(vis.dynamic)]),
                              vis.bands[k].dynamic.range)

\* C19 amended: for an enabled band of a gain-bearing type with dynamics
\* enabled, the preview magnitude at every query frequency is the magnitude of
\* the band's filter there with the band's gain plus the configured range as its
\* gain; at the centre frequency of a Peaking band this is the static magnitude
\* plus the configured range.
C19_PreviewIsMagnitudeAtGainPlusRange ==
    (vis.pc \in {"dynamic", "done"} /\ Len(vis.dynamic) > 0)
        => \A k \in 1..Len(vis.bands) :
             (vis.bands[k].enabled /\ ~Unmodulated(vis.bands[k]))
                => LET band == vis.bands[k]
                       freq == Points[Len(vis.dynamic)]
                   IN  /\ vis.returned[k]
                            = getBiquadMagnitude(freq, band.type, band.frequency, band.q,
                                                 DbPlus(band.gain, band.dynamic.range))
                       /\ (band.type = "peaking" /\ freq = band.frequency)
                            => vis.returned[k]
                                 = DbPlus(StaticMagnitude(band, freq), band.dynamic.range)

\* the with-dynamics curve is drawn to its end from a Peaking and a shelf band
\* with dynamics enabled
C19_Witness ==
    /\ vis.pc = "done"
    /\ Len(vis.dynamic) = Len(Points)
    /\ \E k \in 1..Len(vis.bands) :
         /\ vis.bands[k].enabled
         /\ vis.bands[k].type = "peaking"
         /\ vis.bands[k].dynamic.enabled
    /\ \E k \in 1..Len(vis.bands) :
         /\ vis.bands[k].enabled
         /\ vis.bands[k].type = "highshelf"
         /\ vis.bands[k].dynamic.enabled

(* ================== the claim about repeated rebuilds ================== *)
\* the connections that leave the input tap or a filter
LiveConnections ==
    {c \in conn : \/ c[1] = analyserInput
                  \/ c[1] \in DOMAIN nodes /\ nodes[c[1]].kind = "biquad"}

\* C20: updateFilters(bands) called twice in a row with the same collection
\* leaves what one call leaves: the filters of the enabled bands in order with
\* their parameters, and as live connections those of that one chain only, one
\* per enabled band and one more.
C20_Idempotent ==
    (lastOp.op = "updateFilters" /\ lastOp.at = "return")
        => /\ Path(analyserInput, MaxNodes + 1) =
                [i \in 1..Len(EnabledBands) |-> FilterOf(EnabledBands[i])]
           /\ Cardinality(LiveConnections) = Len(EnabledBands) + 1

(* ============ the claim about the live filter and the curve ============ *)
\* C21: for every band the response drawn for it is the response its live
\* filter applies to the audio: the same formula, the same use of Q and gain
\* and the same sample rate.
C21_DrawnIsHeard ==
    (vis.pc = "derive" /\ vis.heard # <<>> /\ vis.drawn # <<>>)
        => vis.heard = vis.drawn

(* ================= the claim about the captured stream ================= *)
\* the engine has a Microphone source
HasMicSource ==
    sourceNode # Null /\ nodes[sourceNode].kind = "mediaStreamSource"

\* C22: no captured media stream is live while the engine has no Microphone
\* source: stop() and the start() of another source release the stream.
C22_StreamReleasedWithSource == ~HasMicSource => streams = 0

\* C23: the ids of the bands of the controller are pairwise distinct, so the
\* id-keyed filter map gets one entry per enabled band
C23_BandIdsUnique ==
    \A i, j \in DOMAIN app.bands : app.bands[i].id = app.bands[j].id => i = j

\* C26: every band the user interface can make has its frequency within
\* 20..20000 Hz, its gain within -30..30 dB and its Q within 0.1..18
C26_BandsWithinRanges ==
    \A i \in DOMAIN app.bands :
        /\ app.bands[i].frequency >= MIN_FREQ /\ app.bands[i].frequency <= MAX_FREQ
        /\ app.bands[i].gain >= MIN_DB /\ app.bands[i].gain <= MAX_DB
        /\ app.bands[i].q >= MIN_Q_TENTHS /\ app.bands[i].q <= MAX_Q_TENTHS

\* a band added by a double click, dragged and turned to the ends of its
\* knobs, retyped and bypassed
C26_Witness ==
    \E i \in DOMAIN app.bands :
        /\ app.bands[i].id = newBandId(1001)
        /\ app.bands[i].frequency = MAX_FREQ
        /\ app.bands[i].gain = MIN_DB
        /\ app.bands[i].q = Knobs.q.max
        /\ app.bands[i].type = "lowshelf"
        /\ ~app.bands[i].enabled

\* the active source plays the decoded file
FileSourceActive == sourceNode # Null /\ nodes[sourceNode].buffer = "file"

\* C24: the playback offset changes only in a step that stops a File source
\* or that ends a file load: stopping a source of another kind, and stop()
\* with no source, leave it as it was
C24_OffsetMovesOnlyForFile ==
    [][playbackOffset' # playbackOffset
          => \/ FileSourceActive
             \/ (lastOp'.op = "loadAudioFile" /\ lastOp'.at = "return")]_vars

\* no handler of the controller is under way: no call is suspended and no
\* export is pending
NoHandlerRunning ==
    /\ \A c \in CallIds : calls[c] = NoCall
    /\ app.exports = <<>>

\* the active source is of the kind the source type names
SourceIsOfType(type) ==
    /\ sourceNode # Null
    /\ CASE type = "noise"      -> nodes[sourceNode].buffer = "noise"
         [] type = "file"       -> nodes[sourceNode].buffer = "file"
         [] type = "oscillator" -> nodes[sourceNode].kind = "oscillator"
         [] type = "mic"        -> nodes[sourceNode].kind = "mediaStreamSource"

\* C25: while no handler of the controller is under way, isPlaying says
\* whether the engine has an active source, and sourceType names its kind
C25_FlagAgreesWithEngine ==
    NoHandlerRunning =>
        IF app.isPlaying THEN SourceIsOfType(app.sourceType)
        ELSE sourceNode = Null

====
